---- MODULE Spec2Model ----
(***************************************************************************)
(* Esper custom role cloner (esper-role-cloner/esper_clone_role.py).       *)
(*                                                                         *)
(* The model has three parts:                                              *)
(*   - the pure helpers of EsperRoleCloner (string trimming/lower-casing,  *)
(*     response normalisers, name lookup, scope extraction), written as    *)
(*     operators that compute what the Python computes;                    *)
(*   - the remote API of each tenant (role list, create, scope replace);   *)
(*   - main() and clone_to_tenant() as a sequential state machine, one     *)
(*     action per block of main between two API calls.                     *)
(*                                                                         *)
(* Strings that the program trims or lower-cases (role names, tenant       *)
(* names) are sequences of one-character strings.  JSON values that may be *)
(* a string or an object (scope items) are tagged records.                 *)
(***************************************************************************)
EXTENDS Integers, Sequences, FiniteSets, TLC

VARIABLES
    pc,          \* position of main()
    args,        \* command-line arguments read so far
    dry_run,     \* EsperRoleCloner.dry_run
    tenants,     \* load_config(): configured tenant names, in file order
    source,      \* args.source_tenant once validated
    role_def,    \* fetch_role_definition(): the portable role definition
    targets,     \* resolved target names, in dict insertion order
    cur,         \* index in targets of the target being cloned
    role_id,     \* existing_id / new_role_id inside clone_to_tenant
    results,     \* results of the targets processed so far, in order
    exitCode,    \* process exit status (-1 while running)
    diag,        \* which diagnostic ended the run
    remote,      \* remote[t]: the role records tenant t's API holds
    remote0,     \* remote as it was when the run started
    calls,       \* every API call issued, in order
    clock,       \* elapsed time in milliseconds
    lk,          \* get_role_by_name under test: its arguments and result
    ex           \* _extract_scope_identifiers under test: argument and result

vars == <<pc, args, dry_run, tenants, source, role_def, targets, cur, role_id,
          results, exitCode, diag, remote, remote0, calls, clock, lk, ex>>

-----------------------------------------------------------------------------
(* Program constants *)

\* RATE_LIMIT_DELAY = 0.5 seconds, in milliseconds
RATE_LIMIT_DELAY == 500

(* Bounds of the pure-function specifications *)
MaxRoles == 2
MaxScopes == 2

-----------------------------------------------------------------------------
(* Strings: str.strip() and str.lower() *)

Whitespace == {" ", "\t"}

RECURSIVE LStrip(_)
LStrip(s) ==
    IF s = <<>> THEN <<>>
    ELSE IF Head(s) \in Whitespace THEN LStrip(Tail(s)) ELSE s

RECURSIVE RStrip(_)
RStrip(s) ==
    IF s = <<>> THEN <<>>
    ELSE IF s[Len(s)] \in Whitespace THEN RStrip(SubSeq(s, 1, Len(s) - 1)) ELSE s

Strip(s) == RStrip(LStrip(s))

LowerChar(c) ==
    CASE c = "A" -> "a"
      [] c = "B" -> "b"
      [] OTHER -> c

Lower(s) == [i \in 1..Len(s) |-> LowerChar(s[i])]

-----------------------------------------------------------------------------
(* JSON values *)

\* An optional string field of a JSON object: absent, or present with a value.
NoName == [has |-> FALSE, val |-> <<>>]
Name(s) == [has |-> TRUE, val |-> s]

\* dict.get("name", "")
GetNameOrEmpty(role) == IF role.name.has THEN role.name.val ELSE <<>>

\* A role identifier; NoId stands for a missing, null or empty identifier.
NoId == "none"

\* A scope item: a JSON string, or a JSON object with some of the known keys.
ScopeKeys == {"scope", "name", "permission", "id", "slug"}
NoObj == [k \in {} |-> ""]
Str(v) == [tag |-> "str", val |-> v, obj |-> NoObj]
Obj(f) == [tag |-> "obj", val |-> "", obj |-> f]
\* the object whose keys are K, each key holding its own distinct string
ObjOf(K) == Obj([k \in K |-> "v_" \o k])

\* A role record as the API returns it.  "id" and "role_id" are the two keys
\* the program reads the identifier from.
Role(id, rid, name, description, scopes) ==
    [id |-> id, role_id |-> rid, name |-> name, description |-> description,
     scopes |-> scopes]

\* A decoded JSON response: an object (with the keys the normalisers look
\* at), a bare list, or anything else.  A key of the object is absent, holds
\* a list, or holds something that is not a list.
NoField == [is |-> "absent", items |-> <<>>]
ListField(l) == [is |-> "list", items |-> l]
NotListField == [is |-> "other", items |-> <<>>]
DictResp(fRoles, fResults, fScopes) ==
    [kind |-> "dict", roles |-> fRoles, results |-> fResults, scopes |-> fScopes,
     items |-> <<>>]
ListResp(l) ==
    [kind |-> "list", roles |-> NoField, results |-> NoField, scopes |-> NoField,
     items |-> l]
OtherResp ==
    [kind |-> "other", roles |-> NoField, results |-> NoField, scopes |-> NoField,
     items |-> <<>>]

-----------------------------------------------------------------------------
(* Response normalisers and lookups of EsperRoleCloner *)

\* list_roles: the list inside the response of GET roles/
list_roles(result) ==
    IF result.kind = "dict" /\ result.roles.is = "list" THEN result.roles.items
    ELSE IF result.kind = "dict" /\ result.results.is = "list" THEN result.results.items
    ELSE IF result.kind = "list" THEN result.items
    ELSE <<>>

\* get_role_scopes: the list inside the response of GET roles/{id}/scopes
get_role_scopes(result) ==
    IF result.kind = "list" THEN result.items
    ELSE IF result.kind = "dict" /\ result.scopes.is = "list" THEN result.scopes.items
    ELSE IF result.kind = "dict" /\ result.results.is = "list" THEN result.results.items
    ELSE <<>>

\* the comparison of get_role_by_name's loop body
NameMatches(role, role_name) ==
    Lower(Strip(GetNameOrEmpty(role))) = Lower(Strip(role_name))

\* the loop of get_role_by_name from position i on: the position of the role
\* it returns, 0 for None
RECURSIVE ScanRoles(_, _, _)
ScanRoles(roles, role_name, i) ==
    IF i > Len(roles) THEN 0
    ELSE IF NameMatches(roles[i], role_name) THEN i
    ELSE ScanRoles(roles, role_name, i + 1)

\* the name never compared: the first role of the list is returned
get_role_by_name_FirstRole(roles, role_name) == IF roles = <<>> THEN 0 ELSE 1

get_role_by_name(roles, role_name) == ScanRoles(roles, role_name, 1)

\* role_name is None (a source role without a name field): role_name.strip()
\* raises AttributeError as soon as the loop body runs once
GetRoleByNameRaises(roles, name) == ~name.has /\ roles # <<>>

\* existing.get("id") or existing.get("role_id")
IdOf(role) == IF role.id # NoId THEN role.id ELSE role.role_id

\* the keys tried with "name" ahead of "scope"
ScopeKeyOrder_NameFirst == <<"name", "scope", "permission", "id", "slug">>

\* the tuple of keys _extract_scope_identifiers tries, in order
ScopeKeyOrder == <<"scope", "name", "permission", "id", "slug">>

\* the for/else over ScopeKeyOrder: position of the first key the item has, 0 if none
RECURSIVE FirstKey(_, _)
FirstKey(item, i) ==
    IF i > Len(ScopeKeyOrder) THEN 0
    ELSE IF ScopeKeyOrder[i] \in DOMAIN item.obj THEN i
    ELSE FirstKey(item, i + 1)

\* what one item appends to identifiers
ExtractItem(item) ==
    IF item.tag = "str" THEN <<item>>
    ELSE IF FirstKey(item, 1) = 0 THEN <<item>>
    ELSE <<Str(item.obj[ScopeKeyOrder[FirstKey(item, 1)]])>>

RECURSIVE extract_scope_identifiers(_)
extract_scope_identifiers(scopes_response) ==
    IF scopes_response = <<>> THEN <<>>
    ELSE ExtractItem(Head(scopes_response))
             \o extract_scope_identifiers(Tail(scopes_response))

\* what one element of scopes appends to scope_names in update_role_scopes
ScopeNameOf(s) ==
    IF s.tag = "str" THEN <<s>>
    ELSE IF "name" \in DOMAIN s.obj THEN <<Str(s.obj["name"])>>
    ELSE IF "scope" \in DOMAIN s.obj THEN <<Str(s.obj["scope"])>>
    ELSE <<>>

\* the scope_names list update_role_scopes puts in its payload
RECURSIVE scope_names(_)
scope_names(scopes) ==
    IF scopes = <<>> THEN <<>>
    ELSE ScopeNameOf(Head(scopes)) \o scope_names(Tail(scopes))

-----------------------------------------------------------------------------
(* Request payloads *)

NoBody == [keys |-> {}, name |-> NoName, description |-> "", scope_names |-> <<>>]

\* a create payload that also carries the scopes
CreatePayload_WithScopes(name, description) ==
    [keys |-> {"name", "description", "scope_names"}, name |-> name,
     description |-> description, scope_names |-> role_def.scopes]

\* create_role: payload = {"name": name, "description": description}
CreatePayload(name, description) ==
    [keys |-> {"name", "description"}, name |-> name, description |-> description,
     scope_names |-> <<>>]

\* update_role_scopes: payload = {"scope_names": scope_names}
ScopesPayload(scopes) ==
    [keys |-> {"scope_names"}, name |-> NoName, description |-> "",
     scope_names |-> scope_names(scopes)]

-----------------------------------------------------------------------------
(* The remote API of one tenant *)

\* the identifier the API gives a role created during the run
NewId == "new"

RECURSIVE FindById(_, _, _)
FindById(roles, rid, i) ==
    IF i > Len(roles) \/ rid = NoId THEN 0
    ELSE IF roles[i].id = rid \/ roles[i].role_id = rid THEN i
    ELSE FindById(roles, rid, i + 1)

\* POST roles/: the created role, its identifier under the key the API uses
CreatedRole(payload, key) ==
    Role(IF key = "id" THEN NewId ELSE NoId, IF key = "id" THEN NoId ELSE NewId,
         payload.name, payload.description, <<>>)

\* PUT roles/{rid}/scopes: the role's scopes are replaced by the payload's
PutScopes(roles, rid, payload) ==
    IF FindById(roles, rid, 1) = 0 THEN roles
    ELSE [roles EXCEPT ![FindById(roles, rid, 1)].scopes = payload.scope_names]

\* the shapes in which the API may hand out a list of roles
RolesResponses(l) ==
    { DictResp(ListField(l), NoField, NoField),
      DictResp(NoField, ListField(l), NoField),
      DictResp(NotListField, ListField(l), NoField),
      ListResp(l),
      DictResp(NoField, NoField, NoField),
      OtherResp }

\* the shapes in which the API may hand out a list of scopes
ScopesResponses(l) ==
    { ListResp(l),
      DictResp(NoField, NoField, ListField(l)),
      DictResp(NoField, ListField(l), NoField),
      DictResp(NoField, ListField(l), NotListField),
      DictResp(NoField, NoField, NoField),
      OtherResp }

\* how a request ends: a 2xx response, a non-2xx response (raise_for_status
\* raises requests.HTTPError), or no response (requests raises ConnectionError
\* or Timeout, which are not HTTPError)
Outcomes == {"ok", "http", "net"}

-----------------------------------------------------------------------------
(* Inputs *)

S == <<"s">>
A == <<"a">>
B == <<"b">>
X == <<"x">>
Tenants == {S, A, B}

R1 == Role("r1", NoId, Name(<<"a">>), "d1", <<Str("x"), ObjOf({"name", "id"})>>)
R2 == Role(NoId, "r2", Name(<<"A", " ">>), "d2", <<ObjOf({}), Str("y")>>)
R3 == Role("r3", NoId, NoName, "", <<Str("y")>>)
R4 == Role("r4", "r4b", Name(<<"a">>), "", <<>>)
TenantStates == { <<>>, <<R1>>, <<R2>>, <<R3, R4>> }

\* the configuration file: missing, unreadable as a tenant map, or a tenant map
ConfigFiles ==
    { [state |-> "missing", tenants |-> <<>>],
      [state |-> "malformed", tenants |-> <<>>],
      [state |-> "ok", tenants |-> <<>>],
      [state |-> "ok", tenants |-> <<S, A, B>>],
      [state |-> "ok", tenants |-> <<B, S, A>>],
      [state |-> "ok", tenants |-> <<S, A>>] }

\* --source-tenant (<<>>: not given)
SourceArgs == { <<>>, S, X }

\* --role-name (<<>>: not given)
RoleNameArgs == { <<>>, <<"a">>, <<" ", "A", " ">>, <<" ">>, <<"b">> }

\* --all-targets and --target-tenants (<<>>: not given)
TargetArgs ==
    { [all |-> TRUE,  list |-> <<>>],
      [all |-> TRUE,  list |-> <<"b">>],
      [all |-> FALSE, list |-> <<>>],
      [all |-> FALSE, list |-> <<"a", ",", "b">>],
      [all |-> FALSE, list |-> <<"b", ",", " ", "a">>],
      [all |-> FALSE, list |-> <<" ", "a", " ", ",", "x", ",", "s">>],
      [all |-> FALSE, list |-> <<"x", ",", "s">>],
      [all |-> FALSE, list |-> <<"a", ",", "a">>] }

NoArgs ==
    [sample_config |-> FALSE, config |-> "unread", source_tenant |-> <<>>,
     list_roles |-> FALSE, role_name |-> <<>>, export_role |-> FALSE,
     all_targets |-> FALSE, target_tenants |-> <<>>]

NoRoleDef == [name |-> NoName, description |-> "", scopes |-> <<>>, raw_scopes |-> <<>>]

-----------------------------------------------------------------------------
(* Target resolution of main *)

Range(f) == { f[i] : i \in DOMAIN f }

\* str.split(",")
RECURSIVE Split(_)
Split(s) ==
    IF \A i \in 1..Len(s) : s[i] # "," THEN <<s>>
    ELSE LET i == CHOOSE i \in 1..Len(s) :
                      s[i] = "," /\ \A j \in 1..(i - 1) : s[j] # ","
         IN  <<SubSeq(s, 1, i - 1)>> \o Split(SubSeq(s, i + 1, Len(s)))

\* target_names = [t.strip() for t in args.target_tenants.split(",")]
TargetNames(list) == [i \in 1..Len(Split(list)) |-> Strip(Split(list)[i])]

\* {k: v for k, v in tenants.items() if k != args.source_tenant}
AllTargets(names, src) == SelectSeq(names, LAMBDA k : k # src)

\* the loop over target_names filling the targets dict (keys in insertion order)
RECURSIVE ExplicitTargets(_, _, _, _)
ExplicitTargets(target_names, names, src, acc) ==
    IF target_names = <<>> THEN acc
    ELSE LET name == Head(target_names)
             keep == name \in Range(names) /\ name # src /\ name \notin Range(acc)
         IN  ExplicitTargets(Tail(target_names), names, src,
                             IF keep THEN Append(acc, name) ELSE acc)

-----------------------------------------------------------------------------
(* The HTTP client wrapper: _get, _post, _put *)

\* one issued request, as the log keeps it; reply is what the caller decoded
\* from a 2xx response (the role list of GET roles/, the role POST created)
Call(method, tenant, path, rid, body, outcome, reply) ==
    [method |-> method, tenant |-> tenant, path |-> path, rid |-> rid,
     body |-> body, outcome |-> outcome, issued |-> clock, reply |-> reply]

\* resp.raise_for_status() precedes time.sleep(RATE_LIMIT_DELAY): the sleep
\* runs only when the request returned a 2xx response
ClockAfter(outcome) ==
    IF outcome = "ok" THEN clock + RATE_LIMIT_DELAY ELSE clock

Issue(call) ==
    /\ calls' = Append(calls, call)
    /\ clock' = ClockAfter(call.outcome)

NoCall == UNCHANGED <<calls, clock>>

-----------------------------------------------------------------------------
(* main *)

Exit(code, why) ==
    /\ pc' = "done"
    /\ exitCode' = code
    /\ diag' = why

\* an exception nothing catches: traceback, exit status 1
Uncaught == Exit(1, "uncaught")

Goto(next) ==
    /\ pc' = next
    /\ UNCHANGED <<exitCode, diag>>

Init ==
    /\ pc = "start"
    /\ args = NoArgs
    /\ dry_run = FALSE
    /\ tenants = <<>>
    /\ source = <<>>
    /\ role_def = NoRoleDef
    /\ targets = <<>>
    /\ cur = 0
    /\ role_id = NoId
    /\ results = <<>>
    /\ exitCode = -1
    /\ diag = "running"
    /\ remote \in [Tenants -> TenantStates]
    /\ remote0 = remote
    /\ calls = <<>>
    /\ clock = 0
    /\ lk = [roles |-> <<>>, role_name |-> <<>>, done |-> FALSE, result |-> 0]
    /\ ex = [scopes |-> <<>>, done |-> FALSE, result |-> <<>>]

\* --sample-config: print the sample and return
SampleConfig ==
    /\ pc = "start"
    /\ args' = [args EXCEPT !.sample_config = TRUE]
    /\ Exit(0, "sample")
    /\ NoCall
    /\ UNCHANGED <<dry_run, tenants, source, role_def, targets, cur, role_id,
                   results, remote, lk, ex, remote0>>

\* load_config, then the construction of the cloner
LoadConfig ==
    /\ pc = "start"
    /\ \E cfg \in ConfigFiles, dry \in BOOLEAN :
          /\ args' = [args EXCEPT !.config = cfg.state]
          /\ IF cfg.state = "missing" THEN
                Exit(1, "config_missing") /\ UNCHANGED <<tenants, dry_run>>
             ELSE IF cfg.state = "malformed" THEN
                Uncaught /\ UNCHANGED <<tenants, dry_run>>
             ELSE IF cfg.tenants = <<>> THEN
                Exit(1, "no_tenants") /\ UNCHANGED <<tenants, dry_run>>
             ELSE
                /\ tenants' = cfg.tenants
                /\ dry_run' = dry
                /\ Goto("validate_source")
    /\ NoCall
    /\ UNCHANGED <<source, role_def, targets, cur, role_id, results, remote, lk, ex, remote0>>

\* the validation of --source-tenant
ValidateSource ==
    /\ pc = "validate_source"
    /\ \E src \in SourceArgs :
          /\ args' = [args EXCEPT !.source_tenant = src]
          /\ IF src = <<>> THEN
                Exit(2, "usage") /\ UNCHANGED source
             ELSE IF src \notin Range(tenants) THEN
                Exit(1, "source_not_in_config") /\ UNCHANGED source
             ELSE
                source' = src /\ Goto("mode")
    /\ NoCall
    /\ UNCHANGED <<dry_run, tenants, role_def, targets, cur, role_id, results,
                   remote, lk, ex, remote0>>

\* --list-roles: one listing of the source tenant, then return
ListRoles ==
    /\ pc = "mode"
    /\ args' = [args EXCEPT !.list_roles = TRUE]
    /\ \E o \in Outcomes, resp \in RolesResponses(remote[source]) :
          /\ Issue(Call("GET", source, "roles", NoId, NoBody, o,
                        IF o = "ok" THEN list_roles(resp) ELSE <<>>))
          /\ IF o = "ok" THEN Exit(0, "listed") ELSE Uncaught
    /\ UNCHANGED <<dry_run, tenants, source, role_def, targets, cur, role_id,
                   results, remote, lk, ex, remote0>>

\* the validation of --role-name
ValidateRoleName ==
    /\ pc = "mode"
    /\ \E rn \in RoleNameArgs :
          /\ args' = [args EXCEPT !.role_name = rn]
          /\ IF rn = <<>> THEN Exit(2, "usage") ELSE Goto("fetch_lookup")
    /\ NoCall
    /\ UNCHANGED <<dry_run, tenants, source, role_def, targets, cur, role_id,
                   results, remote, lk, ex, remote0>>

\* fetch_role_definition: get_role_by_name on the source
FetchLookup ==
    /\ pc = "fetch_lookup"
    /\ \E o \in Outcomes, resp \in RolesResponses(remote[source]) :
          LET roles == list_roles(resp)
              i == get_role_by_name(roles, args.role_name)
          IN  /\ Issue(Call("GET", source, "roles", NoId, NoBody, o,
                            IF o = "ok" THEN roles ELSE <<>>))
              /\ IF o # "ok" THEN
                    Uncaught /\ UNCHANGED <<role_def, role_id>>
                 ELSE IF i = 0 THEN
                    Goto("fetch_notfound") /\ UNCHANGED <<role_def, role_id>>
                 ELSE
                    /\ role_def' = [NoRoleDef EXCEPT !.name = roles[i].name,
                                        !.description = roles[i].description]
                    /\ role_id' = IdOf(roles[i])
                    /\ Goto("fetch_scopes")
    /\ UNCHANGED <<args, dry_run, tenants, source, targets, cur, results, remote,
                   lk, ex, remote0>>

\* fetch_role_definition, role not found: list the available roles, exit 1
FetchNotFound ==
    /\ pc = "fetch_notfound"
    /\ \E o \in Outcomes, resp \in RolesResponses(remote[source]) :
          /\ Issue(Call("GET", source, "roles", NoId, NoBody, o,
                        IF o = "ok" THEN list_roles(resp) ELSE <<>>))
          /\ IF o = "ok" THEN Exit(1, "role_not_found") ELSE Uncaught
    /\ UNCHANGED <<args, dry_run, tenants, source, role_def, targets, cur, role_id,
                   results, remote, lk, ex, remote0>>

\* fetch_role_definition: get_role_scopes, _extract_scope_identifiers, the dict
FetchScopes ==
    /\ pc = "fetch_scopes"
    /\ LET at == FindById(remote[source], role_id, 1)
       IN  \E o \in Outcomes,
              resp \in ScopesResponses(IF at = 0 THEN <<>> ELSE remote[source][at].scopes) :
              LET scopes == get_role_scopes(resp)
              IN  /\ o = "ok" => at # 0
                  /\ Issue(Call("GET", source, "scopes", role_id, NoBody, o, <<>>))
                  /\ IF o # "ok" THEN
                        Uncaught /\ UNCHANGED role_def
                     ELSE
                        /\ role_def' = [role_def EXCEPT
                                            !.scopes = extract_scope_identifiers(scopes),
                                            !.raw_scopes = scopes]
                        /\ Goto("export_or_targets")
    /\ UNCHANGED <<args, dry_run, tenants, source, targets, cur, role_id, results,
                   remote, lk, ex, remote0>>

\* --export-role: write the definition to a file, then return
ExportRole ==
    /\ pc = "export_or_targets"
    /\ args' = [args EXCEPT !.export_role = TRUE]
    /\ \E written \in BOOLEAN :
          IF written THEN Exit(0, "exported") ELSE Uncaught
    /\ NoCall
    /\ UNCHANGED <<dry_run, tenants, source, role_def, targets, cur, role_id,
                   results, remote, lk, ex, remote0>>

\* the targets dict main builds from --all-targets / --target-tenants
ResolvedTargets(all, list, names, src) ==
    IF all THEN AllTargets(names, src)
    ELSE ExplicitTargets(TargetNames(list), names, src, <<>>)

\* "Determine target tenants"
ResolveTargets ==
    /\ pc = "export_or_targets"
    /\ \E sel \in TargetArgs :
          LET t == ResolvedTargets(sel.all, sel.list, tenants, source)
          IN  /\ args' = [args EXCEPT !.all_targets = sel.all,
                                      !.target_tenants = sel.list]
              /\ IF ~sel.all /\ sel.list = <<>> THEN
                    Exit(2, "usage") /\ UNCHANGED <<targets, cur>>
                 ELSE IF t = <<>> THEN
                    Exit(1, "no_targets") /\ UNCHANGED <<targets, cur>>
                 ELSE
                    /\ targets' = t
                    /\ cur' = 1
                    /\ Goto("clone_lookup")
    /\ NoCall
    /\ UNCHANGED <<dry_run, tenants, source, role_def, role_id, results, remote,
                   lk, ex, remote0>>

-----------------------------------------------------------------------------
(* clone_to_tenant, called from the loop "Clone to each target" *)

\* results[name] = success, then the next iteration of the loop
Return(success) ==
    /\ results' = Append(results, success)
    /\ cur' = cur + 1
    /\ Goto(IF cur = Len(targets) THEN "summary" ELSE "clone_lookup")

\* the dry-run test left out of the branch for an existing role
AfterLookup_IgnoreDryRun(found, dry) ==
    IF found THEN "update"
    ELSE (IF dry THEN "return_true" ELSE "create")

\* the result of the lookup ignored: the role is always created
AfterLookup_AlwaysCreate(found, dry) ==
    IF dry THEN "return_true" ELSE "create"

\* the branch clone_to_tenant takes once the lookup has returned
AfterLookup(found, dry) ==
    IF found THEN (IF dry THEN "return_true" ELSE "update")
    ELSE (IF dry THEN "return_true" ELSE "create")

\* new_role.get("id") or new_role.get("role_id")
NewRoleId(new_role) == IF new_role.id # NoId THEN new_role.id ELSE new_role.role_id

\* existing = self.get_role_by_name(target, role_name), outside any try
CloneLookup ==
    /\ pc = "clone_lookup"
    /\ LET t == targets[cur]
       IN  \E o \in Outcomes, resp \in RolesResponses(remote[t]) :
              LET roles == list_roles(resp)
                  raises == GetRoleByNameRaises(roles, role_def.name)
                  i == get_role_by_name(roles, role_def.name.val)
                  branch == AfterLookup(i > 0, dry_run)
              IN  /\ Issue(Call("GET", t, "roles", NoId, NoBody, o,
                                IF o = "ok" THEN roles ELSE <<>>))
                  /\ IF o # "ok" \/ raises THEN
                        Uncaught /\ UNCHANGED <<results, cur, role_id>>
                     ELSE IF branch = "return_true" THEN
                        Return(TRUE) /\ UNCHANGED role_id
                     ELSE IF branch = "update" THEN
                        /\ role_id' = IdOf(roles[i])
                        /\ Goto("clone_update")
                        /\ UNCHANGED <<results, cur>>
                     ELSE
                        /\ Goto("clone_create")
                        /\ UNCHANGED <<results, cur, role_id>>
    /\ UNCHANGED <<args, dry_run, tenants, source, role_def, targets, remote, lk, ex, remote0>>

\* update_role_scopes inside try / except requests.HTTPError
PutScopesStep ==
    LET t == targets[cur]
        payload == ScopesPayload(role_def.scopes)
    IN  \E o \in Outcomes, applied \in BOOLEAN :
           /\ o = "ok" => applied /\ FindById(remote[t], role_id, 1) # 0
           /\ o = "http" => ~applied
           /\ Issue(Call("PUT", t, "scopes", role_id, payload, o, <<>>))
           /\ remote' = IF applied
                        THEN [remote EXCEPT ![t] = PutScopes(remote[t], role_id, payload)]
                        ELSE remote
           /\ IF o = "ok" THEN Return(TRUE)
              ELSE IF o = "http" THEN Return(FALSE)
              ELSE Uncaught /\ UNCHANGED <<results, cur>>

\* the role exists: update its scopes
CloneUpdate ==
    /\ pc = "clone_update"
    /\ PutScopesStep
    /\ UNCHANGED <<args, dry_run, tenants, source, role_def, targets, role_id, lk, ex, remote0>>

\* "Create the new role"
CloneCreate ==
    /\ pc = "clone_create"
    /\ LET t == targets[cur]
           payload == CreatePayload(role_def.name, role_def.description)
       IN  \E o \in Outcomes, applied \in BOOLEAN, key \in {"id", "role_id"} :
              LET new_role == CreatedRole(payload, key)
              IN  /\ o = "ok" => applied
                  /\ o = "http" => ~applied
                  /\ Issue(Call("POST", t, "roles", NoId, payload, o,
                                IF o = "ok" THEN <<new_role>> ELSE <<>>))
                  /\ remote' = IF applied
                               THEN [remote EXCEPT ![t] = Append(remote[t], new_role)]
                               ELSE remote
                  /\ IF o = "ok" THEN
                        /\ role_id' = NewRoleId(new_role)
                        /\ Goto("clone_apply")
                        /\ UNCHANGED <<results, cur>>
                     ELSE IF o = "http" THEN
                        Return(FALSE) /\ UNCHANGED role_id
                     ELSE
                        Uncaught /\ UNCHANGED <<results, cur, role_id>>
    /\ UNCHANGED <<args, dry_run, tenants, source, role_def, targets, lk, ex, remote0>>

\* "Apply the scopes" to the role just created
CloneApply ==
    /\ pc = "clone_apply"
    /\ PutScopesStep
    /\ UNCHANGED <<args, dry_run, tenants, source, role_def, targets, role_id, lk, ex, remote0>>

\* sum(1 for v in results.values() if not v)
Failed(res) == Cardinality({ i \in DOMAIN res : ~res[i] })

\* "Final summary": the tally and the exit status
Summary ==
    /\ pc = "summary"
    /\ IF Failed(results) > 0 THEN Exit(1, "failed_targets") ELSE Exit(0, "ok")
    /\ NoCall
    /\ UNCHANGED <<args, dry_run, tenants, source, role_def, targets, cur, role_id,
                   results, remote, lk, ex, remote0>>

Next ==
    \/ SampleConfig
    \/ LoadConfig
    \/ ValidateSource
    \/ ListRoles
    \/ ValidateRoleName
    \/ FetchLookup
    \/ FetchNotFound
    \/ FetchScopes
    \/ ExportRole
    \/ ResolveTargets
    \/ CloneLookup
    \/ CloneUpdate
    \/ CloneCreate
    \/ CloneApply
    \/ Summary

Spec == Init /\ [][Next]_vars

-----------------------------------------------------------------------------
(* get_role_by_name and _extract_scope_identifiers on their own: the inputs  *)
(* are drawn at the start and one action applies the function.              *)

SeqsUpTo(set, n) == UNION { [1..k -> set] : k \in 0..n }

Idle ==
    /\ pc = "idle"
    /\ args = NoArgs
    /\ dry_run = FALSE
    /\ tenants = <<>>
    /\ source = <<>>
    /\ role_def = NoRoleDef
    /\ targets = <<>>
    /\ cur = 0
    /\ role_id = NoId
    /\ results = <<>>
    /\ exitCode = -1
    /\ diag = "running"
    /\ remote = [t \in Tenants |-> <<>>]
    /\ remote0 = remote
    /\ calls = <<>>
    /\ clock = 0

\* names a role record may hold
StoredNames ==
    { <<>>, <<" ">>, <<"a">>, <<"A">>, <<" ", "a">>, <<"A", "\t">>, <<"b">>, <<"a", "b">> }

\* names the program asks for: --role-name (never empty) or a source role's name
RequestedNames == StoredNames \ { <<>> }

LookupRoles ==
    { Role("r", NoId, n, "", <<>>) : n \in { Name(v) : v \in StoredNames } \cup { NoName } }

InitLookup ==
    /\ Idle
    /\ \E roles \in SeqsUpTo(LookupRoles, MaxRoles), role_name \in RequestedNames :
          lk = [roles |-> roles, role_name |-> role_name, done |-> FALSE, result |-> 0]
    /\ ex = [scopes |-> <<>>, done |-> FALSE, result |-> <<>>]

LookupApply ==
    /\ pc = "idle"
    /\ ~lk.done
    /\ lk' = [lk EXCEPT !.done = TRUE,
                        !.result = get_role_by_name(lk.roles, lk.role_name)]
    /\ UNCHANGED <<pc, args, dry_run, tenants, source, role_def, targets, cur,
                   role_id, results, exitCode, diag, remote, remote0, calls,
                   clock, ex>>

SpecLookup == InitLookup /\ [][LookupApply]_vars

ScopeItems == { Str("x"), Str("y") } \cup { ObjOf(K) : K \in SUBSET ScopeKeys }

InitExtract ==
    /\ Idle
    /\ lk = [roles |-> <<>>, role_name |-> <<>>, done |-> FALSE, result |-> 0]
    /\ \E scopes \in SeqsUpTo(ScopeItems, MaxScopes) :
          ex = [scopes |-> scopes, done |-> FALSE, result |-> <<>>]

ExtractApply ==
    /\ pc = "idle"
    /\ ~ex.done
    /\ ex' = [ex EXCEPT !.done = TRUE,
                        !.result = extract_scope_identifiers(ex.scopes)]
    /\ UNCHANGED <<pc, args, dry_run, tenants, source, role_def, targets, cur,
                   role_id, results, exitCode, diag, remote, remote0, calls,
                   clock, lk>>

SpecExtract == InitExtract /\ [][ExtractApply]_vars

-----------------------------------------------------------------------------
(* Vocabulary of the properties *)

\* the calls issued to tenant t, in order
CallsOf(t) == SelectSeq(calls, LAMBDA c : c.tenant = t)

\* some call issued to tenant t ended in a non-2xx response or a network failure
FailedCall(t) ==
    \E k \in DOMAIN calls : calls[k].tenant = t /\ calls[k].outcome # "ok"

\* the identifier under which the API knows a role
Identifier(role) == IF role.id = NoId THEN role.role_id ELSE role.id

\* the roles of a list whose name field, trimmed and lower-cased, equals the
\* requested name, trimmed and lower-cased
Named(roles, role_name) ==
    { j \in DOMAIN roles :
         /\ roles[j].name.has
         /\ Lower(Strip(roles[j].name.val)) = Lower(Strip(role_name)) }

Min(set) == CHOOSE m \in set : \A n \in set : m <= n

\* the lookup of target t returned, and found a role named like the source role
LookupFound(t) ==
    /\ CallsOf(t) # <<>>
    /\ CallsOf(t)[1].outcome = "ok"
    /\ role_def.name.has
    /\ Named(CallsOf(t)[1].reply, role_def.name.val) # {}

\* the lookup of target t returned, and found no role named like the source role
LookupMissed(t) ==
    /\ CallsOf(t) # <<>>
    /\ CallsOf(t)[1].outcome = "ok"
    /\ role_def.name.has
    /\ Named(CallsOf(t)[1].reply, role_def.name.val) = {}

-----------------------------------------------------------------------------
(* C1: in a non-dry-run, a failed call (non-2xx or network failure) at any   *)
(* step of one target's clone makes clone_to_tenant return failure for that  *)
(* target only: when the run has ended every target has a result, and a      *)
(* target's result is failure exactly when one of its own calls failed.      *)
C1_FailureStaysWithItsTarget ==
    (pc = "done" /\ ~dry_run /\ \E i \in DOMAIN targets : FailedCall(targets[i]))
    => /\ Len(results) = Len(targets)
       /\ \A i \in DOMAIN targets : results[i] = ~FailedCall(targets[i])

(* C2: with dry_run set no POST and no PUT is ever issued and no tenant's   *)
(* remote state changes; every target processed was looked up with a GET,   *)
(* every result is success, and a target whose lookup returned has its      *)
(* success recorded.                                                         *)
C2_DryRunNeverMutates ==
    dry_run
    => /\ \A k \in DOMAIN calls : calls[k].method = "GET"
       /\ remote = remote0
       /\ \A i \in DOMAIN results :
             /\ results[i]
             /\ \E k \in DOMAIN calls :
                   /\ calls[k].method = "GET"
                   /\ calls[k].tenant = targets[i]
                   /\ calls[k].path = "roles"
       /\ \A i \in DOMAIN targets :
             (LookupFound(targets[i]) \/ LookupMissed(targets[i]))
             => i <= Len(results) /\ results[i]

\* a dry run that ended after a target holding the role and one not holding it
C2_Witness ==
    /\ dry_run
    /\ pc = "done"
    /\ exitCode = 0
    /\ \E i, j \in DOMAIN results :
          LookupFound(targets[i]) /\ LookupMissed(targets[j])

(* C3: in a non-dry-run, a target whose lookup found no role named like the  *)
(* source role and none of whose calls failed received exactly GET, POST,    *)
(* PUT in that order, the POST carrying only name and description, the PUT   *)
(* addressed to the identifier the POST returned, and its result is success; *)
(* a target whose POST failed received no PUT.                               *)
C3_CreateThenApplyScopes ==
    ~dry_run
    => \A i \in DOMAIN targets :
          LET cs == CallsOf(targets[i])
          IN  /\ (\E k \in DOMAIN cs : cs[k].method = "POST" /\ cs[k].outcome # "ok")
                 => \A m \in DOMAIN cs : cs[m].method # "PUT"
              /\ (LookupMissed(targets[i]) /\ ~FailedCall(targets[i]) /\ pc = "done")
                 => /\ Len(cs) = 3
                    /\ cs[1].method = "GET"
                    /\ cs[2].method = "POST"
                    /\ cs[2].path = "roles"
                    /\ cs[2].body.keys = {"name", "description"}
                    /\ cs[2].body.name = role_def.name
                    /\ cs[2].body.description = role_def.description
                    /\ cs[3].method = "PUT"
                    /\ cs[3].path = "scopes"
                    /\ cs[3].rid # NoId
                    /\ cs[3].rid = Identifier(cs[2].reply[1])
                    /\ i <= Len(results)
                    /\ results[i]

\* a finished non-dry-run that created the role on a target whose API returns
\* the new identifier under "role_id"
C3_Witness ==
    /\ ~dry_run
    /\ pc = "done"
    /\ \E i \in DOMAIN results :
          /\ results[i]
          /\ LookupMissed(targets[i])
          /\ Len(CallsOf(targets[i])) = 3
          /\ CallsOf(targets[i])[2].reply[1].id = NoId

(* C4: in a non-dry-run, a target whose lookup found a role named like the   *)
(* source role receives no POST and at most one PUT, that PUT addressed to   *)
(* the identifier of the first matching role; clone_to_tenant returns only   *)
(* after the PUT, and returns success exactly when the PUT succeeded.        *)
C4_UpdateExistingOnce ==
    ~dry_run
    => \A i \in DOMAIN targets :
          LookupFound(targets[i])
          => LET cs == CallsOf(targets[i])
                 found == cs[1].reply[Min(Named(cs[1].reply, role_def.name.val))]
             IN  /\ \A k \in DOMAIN cs : cs[k].method # "POST"
                 /\ Len(cs) <= 2
                 /\ Len(cs) = 2
                    => /\ cs[2].method = "PUT"
                       /\ cs[2].path = "scopes"
                       /\ cs[2].rid = Identifier(found)
                 /\ i <= Len(results) => Len(cs) = 2
                 /\ (i <= Len(results) /\ results[i])
                    <=> (Len(cs) = 2 /\ cs[2].outcome = "ok")

\* a non-dry-run updated a role that is second in the target's list and
\* failed to update one on another target
C4_Witness ==
    /\ ~dry_run
    /\ \E i, j \in DOMAIN results :
          /\ LookupFound(targets[i])
          /\ results[i]
          /\ Len(CallsOf(targets[i])[1].reply) = 2
          /\ LookupFound(targets[j])
          /\ ~results[j]

(* C5: after a successful non-dry-run clone the scope list sent in the last  *)
(* PUT to the target, and the scopes of the target role afterwards, equal    *)
(* the role definition's scopes element for element, in order.               *)
C5_ScopesMirrorDefinition ==
    ~dry_run
    => \A i \in DOMAIN results :
          results[i]
          => LET cs == CallsOf(targets[i])
                 put == cs[Len(cs)]
                 at == FindById(remote[targets[i]], put.rid, 1)
             IN  /\ put.method = "PUT"
                 /\ put.body.scope_names = role_def.scopes
                 /\ at # 0
                 /\ remote[targets[i]][at].scopes = role_def.scopes

(* C6: when main has ended, the exit status is non-zero exactly when some    *)
(* target's clone did not succeed or a fatal precondition was unmet (read    *)
(* broadly: unusable configuration, missing required argument, source tenant *)
(* not configured or unreachable, source role not found, no valid target);   *)
(* if every target returned success the status is zero, and if some target   *)
(* returned failure the status is non-zero and every target was processed.   *)
C6_ExitStatus ==
    pc = "done"
    => LET fatal ==
               \/ diag \in {"config_missing", "no_tenants", "source_not_in_config",
                            "role_not_found", "no_targets", "usage"}
               \/ diag = "uncaught" /\ targets = <<>>
           notAllSucceeded ==
               /\ targets # <<>>
               /\ \/ Len(results) < Len(targets)
                  \/ \E i \in DOMAIN results : ~results[i]
       IN  /\ (exitCode # 0) <=> (notAllSucceeded \/ fatal)
           /\ (targets # <<>> /\ Len(results) = Len(targets)
                              /\ \A i \in DOMAIN results : results[i])
              => exitCode = 0
           /\ (\E i \in DOMAIN results : ~results[i])
              => exitCode # 0 /\ Len(results) = Len(targets)

(* C7: get_role_by_name returns the first role in list order whose name      *)
(* field equals the requested name, both trimmed and lower-cased, and        *)
(* returns None when no role of the list has such a name field, a role       *)
(* record without a name field included.                                     *)
C7_FirstMatchOrNone ==
    lk.done
    => IF Named(lk.roles, lk.role_name) = {} THEN lk.result = 0
       ELSE lk.result = Min(Named(lk.roles, lk.role_name))

\* the rank of a key in the priority order scope, name, permission, id, slug
KeyRank(k) ==
    CASE k = "scope" -> 1
      [] k = "name" -> 2
      [] k = "permission" -> 3
      [] k = "id" -> 4
      [] k = "slug" -> 5

(* C8: _extract_scope_identifiers returns a list of the same length and      *)
(* order: a string maps to itself, an object to the value of the key of      *)
(* highest priority it contains, an object with none of the keys to itself.  *)
C8_ExtractByPriority ==
    ex.done
    => /\ Len(ex.result) = Len(ex.scopes)
       /\ \A i \in DOMAIN ex.scopes :
             LET item == ex.scopes[i]
                 present == DOMAIN item.obj \cap ScopeKeys
             IN  IF item.tag = "str" \/ present = {} THEN ex.result[i] = item
                 ELSE \E k \in present :
                         /\ \A k2 \in present : KeyRank(k) <= KeyRank(k2)
                         /\ ex.result[i] = Str(item.obj[k])

\* extracted: an object holding both "name" and "scope", then an empty object
C8_Witness ==
    /\ ex.done
    /\ Len(ex.scopes) = 2
    /\ ex.scopes[1].tag = "obj"
    /\ {"name", "scope"} \subseteq DOMAIN ex.scopes[1].obj
    /\ ex.scopes[2] = ObjOf({})
    /\ ex.result = <<Str("v_scope"), ObjOf({})>>

\* the tenants the target selection names: all configured tenants but the
\* source, or the listed names that are configured, but the source
ExpectedTargets ==
    IF args.all_targets THEN Range(tenants) \ {source}
    ELSE ({ Strip(piece) : piece \in Range(Split(args.target_tenants)) }
              \cap Range(tenants)) \ {source}

(* C9: clone_to_tenant is invoked exactly once on each tenant the target     *)
(* selection names and on no other, one target after the other; the source   *)
(* tenant never receives a POST or PUT; the run fails for want of targets    *)
(* only when the selection names none.                                       *)
C9_ExactlyTheSelectedTargets ==
    /\ \A k \in DOMAIN calls : calls[k].tenant = source => calls[k].method = "GET"
    /\ diag = "no_targets" => ExpectedTargets = {}
    /\ targets # <<>>
       => /\ Range(targets) = ExpectedTargets
          /\ \A i, j \in DOMAIN targets : targets[i] = targets[j] => i = j
          /\ \A k \in DOMAIN calls : calls[k].tenant \in ExpectedTargets \cup {source}
    /\ \A k1, k2, k3 \in DOMAIN calls :
          (k1 < k2 /\ k2 < k3 /\ calls[k1].tenant = calls[k3].tenant)
          => calls[k2].tenant = calls[k1].tenant
    /\ (pc = "done" /\ targets # <<>>)
       => \A t \in ExpectedTargets :
             Cardinality({ k \in DOMAIN calls :
                              /\ calls[k].tenant = t
                              /\ calls[k].method = "GET"
                              /\ calls[k].path = "roles" }) = 1

(* C10: between any two consecutive API calls the rate-limit delay elapses,  *)
(* whatever the method and the outcome of the earlier call, and no request   *)
(* that failed is issued again.                                              *)
C10_DelayAfterEveryCall ==
    /\ \A k \in DOMAIN calls :
          k < Len(calls) => calls[k + 1].issued - calls[k].issued >= RATE_LIMIT_DELAY
    /\ \A k, m \in DOMAIN calls :
          (k < m /\ calls[k].outcome # "ok")
          => ~ /\ calls[m].method = calls[k].method
               /\ calls[m].tenant = calls[k].tenant
               /\ calls[m].path = calls[k].path
               /\ calls[m].rid = calls[k].rid

====
